---- MODULE Spec2Model ----
(***************************************************************************)
(* A model of the xline operator: the liveness aggregator                  *)
(* (deploy/src/sidecar_state.rs) and the cluster reconciler                *)
(* (deploy/src/controller/cluster.rs).                                     *)
(*                                                                         *)
(* Each subsystem owns its state and has its own specification; the        *)
(* variables of the other subsystem keep their initial value.              *)
(***************************************************************************)
EXTENDS Integers, Sequences, FiniteSets, TLC

VARIABLES
    \* ---- SidecarState (sidecar_state.rs:14-27) and its task ----
    pc_agg,             \* "new": constructed; "loop": state_update_task is in its loop
    statuses,           \* HashMap<String, HeartbeatStatus>
    unreachable,        \* HashMap<String, usize>
    heartbeat_period,   \* u64
    unreachable_thresh, \* usize
    majority,           \* local of state_update_task, set once before the loop
    delete_calls,       \* the delete requests issued while the last report was processed
    \* ---- observer of the aggregator's history ----
    fed,                \* the reports received so far while they follow a test
                        \* sequence, OffScript afterwards
    \* ---- the API server's children of the cluster, written by the reconciler ----
    svc,                \* the headless Service, if applied
    sts,                \* the StatefulSet, if applied
    cron,               \* the backup CronJob, if applied
    \* ---- the last call of reconcile_once ----
    rec_cluster,        \* the cluster it was given
    rec_result,         \* what it returned
    rec_applied,        \* the kinds it applied, in order
    rec_runs,           \* how many times the event loop called reconcile_once
    \* ---- Operator::prepare_crd (operator-k8s/operator.rs) ----
    pc_crd,             \* "idle", "start": called; "await": waits for Established; "done"
    create_crd,         \* Config.create_crd
    crd_server,         \* the API server's CRD of the managed kind, if any
    crd_listed,         \* crds.get(Cluster::crd_name()) once the list was answered
    crd_writes,         \* the writes of the CRD that prepare_crd issued, in order
    crd_result,         \* what prepare_crd returned
    \* ---- the last call of compare_versions (utils/migration.rs) ----
    cmp_args,           \* <<version1, version2>>
    cmp_result,         \* what it returned
    \* ---- the last call of Health::probe (sidecar/health.rs) ----
    probe_self,         \* Health.id
    probe_members,      \* the keys of Health.members
    probe_ok,           \* the members whose request succeeded, in completion order
    probe_status,       \* the HeartbeatStatus it returned
    \* ---- Health::probe_task (sidecar/health.rs) and the deploy operator it posts to ----
    task_pc,            \* "tick": awaits the interval; "send": probed, about to post;
                        \* "returned": the task returned
    task_result,        \* what probe_task returned
    hb_sent,            \* the heartbeats the deploy operator answered
    operator_up,        \* the deploy operator answers requests
    \* ---- the loop of Operator::run (sidecar/operator.rs) ----
    run_pc,             \* "loop": in the select loop; "exited": left it
    shutdown_stage,     \* the awaits forceful_shutdown has passed: 0, 1 or 2
    graceful_sent,      \* graceful_tx.send(()) was called and not yet observed
    run_exit,           \* the branch that broke the loop
    reconciles,         \* the reconciles that returned Ok
    failures,           \* the reconciles that returned an error other than Shutdown
    \* ---- an XlineHandle (operator-api/xline.rs) and the processes it launched ----
    xh_kind,            \* "none": not constructed; "local": LocalXlineHandle; "k8s"
    xh_proc,            \* child_proc / process: the tracked process, if any
    xh_live,            \* the processes launched and not terminated
    xh_launched,        \* the number of processes launched so far
    xh_call,            \* the last call: "new", "start" or "kill"
    xh_result           \* what the last call returned

aggVars == <<pc_agg, statuses, unreachable, heartbeat_period, unreachable_thresh,
             majority, delete_calls, fed>>

recVars == <<svc, sts, cron, rec_cluster, rec_result, rec_applied, rec_runs>>

crdVars == <<pc_crd, create_crd, crd_server, crd_listed, crd_writes, crd_result>>

cmpVars == <<cmp_args, cmp_result>>

probeVars == <<probe_self, probe_members, probe_ok, probe_status,
               task_pc, task_result, hb_sent, operator_up>>

runVars == <<run_pc, shutdown_stage, graceful_sent, run_exit, reconciles, failures>>

xhVars == <<xh_kind, xh_proc, xh_live, xh_launched, xh_call, xh_result>>

vars == <<aggVars, recVars, crdVars, cmpVars, probeVars, runVars, xhVars>>

-----------------------------------------------------------------------------
(* Generic helpers for HashMap and Vec values.                             *)

EmptyMap == << >>

MapInsert(m, k, v) == [x \in (DOMAIN m) \cup {k} |-> IF x = k THEN v ELSE m[x]]

MapRemove(m, k) == [x \in (DOMAIN m) \ {k} |-> m[x]]

\* The orders in which a HashMap may iterate over the key set S.
RECURSIVE IterationOrders(_)
IterationOrders(S) ==
    IF S = {} THEN {<< >>}
    ELSE UNION {{<<x>> \o p : p \in IterationOrders(S \ {x})} : x \in S}

Reverse(seq) == [i \in 1..Len(seq) |-> seq[Len(seq) + 1 - i]]

-----------------------------------------------------------------------------
(* Bounds of the aggregator's inputs.                                      *)

Ids == {"A", "B", "C"}

Timestamps == {100, 110, 120, 200}

\* The reachable_ids of a report: the sender alone, or every member.
ReachChoices(id) == {<<id>>, <<"A", "B", "C">>}

HeartbeatPeriods == {10}

Thresholds == {2}

\* The sizes the cluster resource may declare when it can be read.
SpecSizes == {3}

\* What reading the cluster resource may answer: an error, or a cluster of some size.
ClusterGetResults ==
    {[ok |-> FALSE, size |-> 0]} \cup {[ok |-> TRUE, size |-> n] : n \in SpecSizes}

HeartbeatStatus(id, timestamp, reachable_ids) ==
    [id |-> id, timestamp |-> timestamp, reachable_ids |-> reachable_ids]

Reports ==
    UNION {{HeartbeatStatus(id, t, r) : t \in Timestamps, r \in ReachChoices(id)} : id \in Ids}

-----------------------------------------------------------------------------
(* HeartbeatStatus ordering and the per-report computation of              *)
(* SidecarState::state_update_task.                                        *)

\* Ord for HeartbeatStatus compares the timestamps only.
StatusLe(a, b) == a.timestamp <= b.timestamp

\* One step of the (stable) sort: s goes after every element that is not greater.
InsertSorted(sorted, s) ==
    LET n == Cardinality({i \in 1..Len(sorted) : StatusLe(sorted[i], s)})
    IN  SubSeq(sorted, 1, n) \o <<s>> \o SubSeq(sorted, n + 1, Len(sorted))

RECURSIVE SortStatuses(_)
SortStatuses(seq) ==
    IF seq = << >> THEN << >>
    ELSE InsertSorted(SortStatuses(SubSeq(seq, 1, Len(seq) - 1)), seq[Len(seq)])

\* self.statuses.values().collect(), sort(), reverse(): newest first.
SortedStatuses(m, order) ==
    Reverse(SortStatuses([i \in 1..Len(order) |-> m[order[i]]]))

\* A window that shuts out the status that is exactly one period old.
WithinPeriodStrict(s, latest, period) == s.timestamp + period > latest.timestamp

\* The take_while predicate: the status is within the period from the latest.
WithinPeriod(s, latest, period) == s.timestamp + period >= latest.timestamp

\* No window: every stored status is accepted.
AcceptedAll(sorted, period) == sorted

\* statuses.iter().take_while(..): the longest prefix whose elements all pass.
Accepted(sorted, period) ==
    LET latest == sorted[1]
        n == CHOOSE k \in 0..Len(sorted) :
                /\ \A i \in 1..k : WithinPeriod(sorted[i], latest, period)
                /\ k < Len(sorted) => ~WithinPeriod(sorted[k + 1], latest, period)
    IN  SubSeq(sorted, 1, n)

\* The fold over the reachable_ids of the accepted statuses: id -> occurrences.
ReachableCounts(accepted) ==
    LET seen == UNION {{accepted[i].reachable_ids[j] :
                            j \in 1..Len(accepted[i].reachable_ids)} :
                       i \in 1..Len(accepted)}
    IN  [id \in seen |->
            Cardinality({ij \in (1..Len(accepted)) \X (1..Cardinality(Ids) + 1) :
                            /\ ij[2] <= Len(accepted[ij[1]].reachable_ids)
                            /\ accepted[ij[1]].reachable_ids[ij[2]] = id})]

\* reachable_counts.get(id).copied().unwrap_or_else(|| 0)
CountOf(counts, id) == IF id \in DOMAIN counts THEN counts[id] ELSE 0

\* self.cluster_api is an Api<Cluster>: the delete goes to the Cluster resource API.
DeleteApi == "Cluster"

DeleteRequest(id, ok) == [api |-> DeleteApi, name |-> id, ok |-> ok]

\* A loop body that never gives up: the counter passes the threshold.
LoopBodyNoGiveUp(st, id, counts, errs) ==
    IF CountOf(counts, id) < majority
    THEN IF id \in DOMAIN st.unreachable
         THEN [st EXCEPT !.unreachable =
                    MapInsert(st.unreachable, id, st.unreachable[id] + 1)]
         ELSE [unreachable |-> MapInsert(st.unreachable, id, 0),
               delete_calls |-> st.delete_calls \cup {DeleteRequest(id, id \notin errs)}]
    ELSE [st EXCEPT !.unreachable = MapRemove(st.unreachable, id)]

\* A loop body for which an id listed by exactly majority statuses is offline.
LoopBodyAtMost(st, id, counts, errs) ==
    IF CountOf(counts, id) <= majority
    THEN IF id \in DOMAIN st.unreachable
         THEN LET cnt == st.unreachable[id] + 1
              IN  IF cnt = unreachable_thresh
                  THEN [st EXCEPT !.unreachable = MapRemove(st.unreachable, id)]
                  ELSE [st EXCEPT !.unreachable = MapInsert(st.unreachable, id, cnt)]
         ELSE [unreachable |-> MapInsert(st.unreachable, id, 0),
               delete_calls |-> st.delete_calls \cup {DeleteRequest(id, id \notin errs)}]
    ELSE [st EXCEPT !.unreachable = MapRemove(st.unreachable, id)]

\* A loop body that keeps a recovered id in the cache.
LoopBodyNoRecovery(st, id, counts, errs) ==
    IF CountOf(counts, id) < majority
    THEN IF id \in DOMAIN st.unreachable
         THEN LET cnt == st.unreachable[id] + 1
              IN  IF cnt = unreachable_thresh
                  THEN [st EXCEPT !.unreachable = MapRemove(st.unreachable, id)]
                  ELSE [st EXCEPT !.unreachable = MapInsert(st.unreachable, id, cnt)]
         ELSE [unreachable |-> MapInsert(st.unreachable, id, 0),
               delete_calls |-> st.delete_calls \cup {DeleteRequest(id, id \notin errs)}]
    ELSE st

\* A loop body that gives up one round late: the counter may equal the threshold.
LoopBodyGiveUpLate(st, id, counts, errs) ==
    IF CountOf(counts, id) < majority
    THEN IF id \in DOMAIN st.unreachable
         THEN LET cnt == st.unreachable[id] + 1
              IN  IF cnt > unreachable_thresh
                  THEN [st EXCEPT !.unreachable = MapRemove(st.unreachable, id)]
                  ELSE [st EXCEPT !.unreachable = MapInsert(st.unreachable, id, cnt)]
         ELSE [unreachable |-> MapInsert(st.unreachable, id, 0),
               delete_calls |-> st.delete_calls \cup {DeleteRequest(id, id \notin errs)}]
    ELSE [st EXCEPT !.unreachable = MapRemove(st.unreachable, id)]

\* The body of `for id in self.statuses.keys()`; st is the state the loop updates,
\* errs the ids for which the API server answers a delete with an error.
LoopBody(st, id, counts, errs) ==
    IF CountOf(counts, id) < majority
    THEN IF id \in DOMAIN st.unreachable
         THEN LET cnt == st.unreachable[id] + 1
              IN  IF cnt = unreachable_thresh
                  THEN [st EXCEPT !.unreachable = MapRemove(st.unreachable, id)]
                  ELSE [st EXCEPT !.unreachable = MapInsert(st.unreachable, id, cnt)]
         ELSE [unreachable |-> MapInsert(st.unreachable, id, 0),
               delete_calls |-> st.delete_calls \cup {DeleteRequest(id, id \notin errs)}]
    ELSE [st EXCEPT !.unreachable = MapRemove(st.unreachable, id)]

\* `for id in statuses.keys()`: the loop body applied to the keys in iteration order.
RECURSIVE ForEachKey(_, _, _, _, _)
ForEachKey(order, i, st, counts, errs) ==
    IF i > Len(order) THEN st
    ELSE ForEachKey(order, i + 1, LoopBody(st, order[i], counts, errs), counts, errs)

\* A round that runs the loop however few statuses were accepted.
ProcessRoundUngated(m, unr, order, errs) ==
    LET sorted   == SortedStatuses(m, order)
        accepted == Accepted(sorted, heartbeat_period)
        start    == [unreachable |-> unr, delete_calls |-> {}]
    IN  ForEachKey(order, 1, start, ReachableCounts(accepted), errs)

\* A round that judges only the key the iteration yields first.
ProcessRoundFirstKey(m, unr, order, errs) ==
    LET sorted   == SortedStatuses(m, order)
        accepted == Accepted(sorted, heartbeat_period)
        start    == [unreachable |-> unr, delete_calls |-> {}]
    IN  IF Len(accepted) < majority
        THEN start
        ELSE ForEachKey(SubSeq(order, 1, 1), 1, start, ReachableCounts(accepted), errs)

\* A round that judges every member of the cluster, heard of or not.
ProcessRoundAllMembers(m, unr, order, errs) ==
    LET sorted   == SortedStatuses(m, order)
        accepted == Accepted(sorted, heartbeat_period)
        start    == [unreachable |-> unr, delete_calls |-> {}]
        rest     == CHOOSE o \in IterationOrders(Ids \ DOMAIN m) : TRUE
    IN  IF Len(accepted) < majority
        THEN start
        ELSE ForEachKey(order \o rest, 1, start, ReachableCounts(accepted), errs)

\* The round after status was inserted: what the loop body of `while let Ok(status)`
\* leaves in unreachable and which delete requests it issued.
ProcessRound(m, unr, order, errs) ==
    LET sorted   == SortedStatuses(m, order)
        accepted == Accepted(sorted, heartbeat_period)
        start    == [unreachable |-> unr, delete_calls |-> {}]
    IN  IF Len(accepted) < majority
        THEN start
        ELSE ForEachKey(order, 1, start, ReachableCounts(accepted), errs)

-----------------------------------------------------------------------------
(* What a round saw, as functions of the statuses map it worked on.        *)

\* One of the iteration orders (what a round saw does not depend on the order).
AnyOrder(m) == SelectSeq(<<"A", "B", "C">>, LAMBDA x : x \in DOMAIN m)

\* What the round on the statuses map m computed.
RoundView(m) ==
    LET accepted == IF m = EmptyMap THEN << >>
                    ELSE Accepted(SortedStatuses(m, AnyOrder(m)), heartbeat_period)
    IN  [known     |-> DOMAIN m,
         accepted  |-> {accepted[i] : i \in 1..Len(accepted)},
         evaluated |-> m # EmptyMap /\ Len(accepted) >= majority,
         counts    |-> ReachableCounts(accepted)]

\* The round passed the check on the number of accepted statuses.
EvaluatedIn(v) == v.evaluated

\* The round considered id offline.
OfflineIn(v, id) == v.evaluated /\ id \in v.known /\ CountOf(v.counts, id) < majority

\* The round considered id online.
OnlineIn(v, id) == v.evaluated /\ id \in v.known /\ CountOf(v.counts, id) >= majority

AcceptedSet(m) == RoundView(m).accepted

Evaluated(m) == EvaluatedIn(RoundView(m))

Offline(m, id) == OfflineIn(RoundView(m), id)

Online(m, id) == OnlineIn(RoundView(m), id)

-----------------------------------------------------------------------------
(* Test sequences (for size 3, heartbeat_period 10, threshold 2), used to   *)
(* recognise the state they lead to.                                       *)

Full == <<"A", "B", "C">>

MajorityScript ==
    << HeartbeatStatus("A", 100, Full), HeartbeatStatus("B", 100, Full),
       HeartbeatStatus("C", 100, Full),
       HeartbeatStatus("A", 110, <<"A">>), HeartbeatStatus("B", 110, <<"B">>),
       HeartbeatStatus("A", 120, <<"A">>), HeartbeatStatus("B", 120, <<"B">>) >>

RecencyScript ==
    << HeartbeatStatus("A", 100, Full), HeartbeatStatus("B", 100, Full),
       HeartbeatStatus("A", 200, <<"A">>) >>

\* The first five reports of MajorityScript (C is deleted), then A and B see everyone.
RecoveryScript ==
    SubSeq(MajorityScript, 1, 5)
        \o << HeartbeatStatus("A", 200, Full), HeartbeatStatus("B", 200, Full) >>

\* A reports with a newer timestamp, then with an older one.
OverwriteScript ==
    << HeartbeatStatus("A", 110, Full), HeartbeatStatus("A", 100, <<"A">>) >>

IsPrefix(p, s) == Len(p) <= Len(s) /\ SubSeq(s, 1, Len(p)) = p

OnScript(seq) == [on |-> TRUE, seq |-> seq]

OffScript == [on |-> FALSE, seq |-> << >>]

Follow(f, status) ==
    IF f.on /\ (\/ IsPrefix(Append(f.seq, status), MajorityScript)
                \/ IsPrefix(Append(f.seq, status), RecencyScript)
                \/ IsPrefix(Append(f.seq, status), RecoveryScript)
                \/ IsPrefix(Append(f.seq, status), OverwriteScript))
    THEN OnScript(Append(f.seq, status))
    ELSE OffScript

-----------------------------------------------------------------------------
(* The aggregator's actions.                                               *)

FallbackSpecSize == 2

\* SidecarState::new
InitAggregator ==
    /\ pc_agg = "new"
    /\ statuses = EmptyMap
    /\ unreachable = EmptyMap
    /\ heartbeat_period \in HeartbeatPeriods
    /\ unreachable_thresh \in Thresholds
    /\ majority = 0
    /\ delete_calls = {}
    /\ fed = OnScript(<< >>)

\* get_spec_size().await.unwrap_or(2)
get_spec_size(result) == IF result.ok THEN result.size ELSE FallbackSpecSize

\* state_update_task up to its loop: the size is read once, the majority derived.
StartTask ==
    /\ pc_agg = "new"
    /\ \E result \in ClusterGetResults :
          majority' = (get_spec_size(result) + 1) \div 2
    /\ pc_agg' = "loop"
    /\ UNCHANGED <<statuses, unreachable, heartbeat_period, unreachable_thresh,
                   delete_calls, fed>>
    /\ UNCHANGED <<recVars, crdVars, cmpVars, probeVars, runVars, xhVars>>

\* What one round may leave behind: the map iterates in some order, and the API
\* server answers some of the deletes with an error.
RoundOutcomes(m, unr) ==
    UNION {LET dry   == ProcessRound(m, unr, order, {})
               asked == {r.name : r \in dry.delete_calls}
           IN  {IF errs = {} THEN dry ELSE ProcessRound(m, unr, order, errs) :
                   errs \in SUBSET asked} :
           order \in IterationOrders(DOMAIN m)}

\* An iteration that keeps the entry with the newer timestamp.
ReceiveStatusKeepNewest(status) ==
    /\ pc_agg = "loop"
    /\ LET m == IF /\ status.id \in DOMAIN statuses
                   /\ statuses[status.id].timestamp > status.timestamp
                THEN statuses
                ELSE MapInsert(statuses, status.id, status)
       IN  /\ statuses' = m
           /\ \E out \in RoundOutcomes(m, unreachable) :
                 /\ unreachable' = out.unreachable
                 /\ delete_calls' = out.delete_calls
    /\ fed' = Follow(fed, status)
    /\ UNCHANGED <<pc_agg, heartbeat_period, unreachable_thresh, majority>>
    /\ UNCHANGED <<recVars, crdVars, cmpVars, probeVars, runVars, xhVars>>

\* An iteration that reads the cluster size again and derives the majority anew.
ReceiveStatusRescaling(status) ==
    /\ pc_agg = "loop"
    /\ LET m == MapInsert(statuses, status.id, status)
       IN  /\ statuses' = m
           /\ \E out \in RoundOutcomes(m, unreachable) :
                 /\ unreachable' = out.unreachable
                 /\ delete_calls' = out.delete_calls
    /\ fed' = Follow(fed, status)
    /\ \E result \in ClusterGetResults :
          majority' = (get_spec_size(result) + 1) \div 2
    /\ UNCHANGED <<pc_agg, heartbeat_period, unreachable_thresh>>
    /\ UNCHANGED <<recVars, crdVars, cmpVars, probeVars, runVars, xhVars>>

\* One iteration of `while let Ok(status) = self.status_rx.recv_async().await`.
ReceiveStatus(status) ==
    /\ pc_agg = "loop"
    /\ LET m == MapInsert(statuses, status.id, status)
       IN  /\ statuses' = m
           /\ \E out \in RoundOutcomes(m, unreachable) :
                 /\ unreachable' = out.unreachable
                 /\ delete_calls' = out.delete_calls
    /\ fed' = Follow(fed, status)
    /\ UNCHANGED <<pc_agg, heartbeat_period, unreachable_thresh, majority>>
    /\ UNCHANGED <<recVars, crdVars, cmpVars, probeVars, runVars, xhVars>>

NextAggregator ==
    \/ StartTask
    \/ \E status \in Reports : ReceiveStatus(status)

-----------------------------------------------------------------------------
(* The cluster reconciler (controller/cluster.rs).                         *)

None == [some |-> FALSE]

Some(x) == [some |-> TRUE, val |-> x]

Ok(x) == [ok |-> TRUE, val |-> x]

Err(e) == [ok |-> FALSE, err |-> e]

\* Strings whose prefixes matter are sequences of characters.
DEFAULT_BACKUP_DIR == <<"/", "x", "l", "i", "n", "e", "-", "b", "a", "c", "k", "u", "p">>

DEFAULT_DATA_DIR ==
    <<"/", "u", "s", "r", "/", "l", "o", "c", "a", "l", "/", "x", "l", "i", "n", "e",
      "/", "d", "a", "t", "a", "-", "d", "i", "r">>

\* str::starts_with
starts_with(s, prefix) ==
    Len(s) >= Len(prefix) /\ SubSeq(s, 1, Len(prefix)) = prefix

\* The variants of Error.
MissingObject(key) == [kind |-> "MissingObject", arg |-> key]

\* Kube(#[from] kube::Error): inner names the request the API server refused.
KubeError(inner) == [kind |-> "Kube", inner |-> inner]

CannotMount(dir) == [kind |-> "CannotMount", arg |-> dir]

\* -------- bounds of the reconciler's inputs --------

VarLog == <<"/", "v", "a", "r">>

MountChoices ==
    { None,
      Some(<<[name |-> "logs", mount_path |-> VarLog]>>),
      \* a proper prefix of a reserved directory is not reserved
      Some(<<[name |-> "x", mount_path |-> SubSeq(DEFAULT_BACKUP_DIR, 1, 6)]>>),
      Some(<<[name |-> "logs", mount_path |-> VarLog],
             [name |-> "b", mount_path |-> DEFAULT_BACKUP_DIR \o <<"/", "a">>]>>),
      Some(<<[name |-> "d", mount_path |-> DEFAULT_DATA_DIR]>>),
      Some(<<[name |-> "d", mount_path |-> DEFAULT_DATA_DIR],
             [name |-> "b", mount_path |-> DEFAULT_BACKUP_DIR]>>) }

PortChoices ==
    { None, Some(<< >>), Some(<<[name |-> Some("client"), container_port |-> 2379]>>) }

Pvc(name) == [metadata |-> [name |-> name]]

BackupChoices ==
    { None,
      Some([cron |-> "daily", storage |-> [kind |-> "S3"]]),
      Some([cron |-> "daily", storage |-> [kind |-> "Pvc", pvc |-> Pvc(Some("backup-pvc"))]]),
      Some([cron |-> "daily", storage |-> [kind |-> "Pvc", pvc |-> Pvc(None)]]) }

DataChoices == { None, Some(Pvc(Some("data-pvc"))), Some(Pvc(None)) }

PvcsChoices == { None, Some(<<Pvc(Some("u1")), Pvc(Some("u2"))>>) }

MetadataChoices ==
    { [namespace |-> Some("default"), name |-> Some("xline")],
      [namespace |-> None, name |-> Some("xline")],
      [namespace |-> Some("default"), name |-> None] }

SizeChoices == {3}

Cluster(md, size, ports, mounts, backup, data, pvcs) ==
    [metadata |-> md,
     spec |-> [size |-> size,
               container |-> [ports |-> ports, volume_mounts |-> mounts],
               backup |-> backup, data |-> data, pvcs |-> pvcs]]

\* A valid cluster with nothing optional.
BaseCluster ==
    Cluster([namespace |-> Some("default"), name |-> Some("xline")], 3,
            Some(<<[name |-> Some("client"), container_port |-> 2379]>>),
            None, None, None, None)

\* The number of the fields in which a cluster differs from BaseCluster.
Deviations(c) ==
    Cardinality({f \in {"ports", "mounts", "backup", "data", "pvcs", "metadata", "size"} :
        CASE f = "ports" -> c.spec.container.ports # BaseCluster.spec.container.ports
          [] f = "mounts" ->
                c.spec.container.volume_mounts # BaseCluster.spec.container.volume_mounts
          [] f = "backup" -> c.spec.backup # BaseCluster.spec.backup
          [] f = "data" -> c.spec.data # BaseCluster.spec.data
          [] f = "pvcs" -> c.spec.pvcs # BaseCluster.spec.pvcs
          [] f = "metadata" -> c.metadata # BaseCluster.metadata
          [] f = "size" -> c.spec.size # BaseCluster.spec.size})

MaxDeviations == 2

\* The observed clusters: those that differ from the base in few fields.
Clusters ==
    { c \in { Cluster(md, size, ports, mounts, backup, data, pvcs) :
                md \in MetadataChoices, size \in SizeChoices, ports \in PortChoices,
                mounts \in MountChoices, backup \in BackupChoices, data \in DataChoices,
                pvcs \in PvcsChoices } :
      Deviations(c) <= MaxDeviations }

\* The API server refuses the applies of at most one kind.
ApiFailures == {{}} \cup {{k} : k \in {"Service", "StatefulSet", "CronJob"}}

cluster_suffix == "cluster.local"

\* -------- the builders --------

extract_service_ports(cluster) ==
    LET ports == cluster.spec.container.ports
    IN  IF ports.some
        THEN Ok([i \in 1..Len(ports.val) |->
                    [name |-> ports.val[i].name, port |-> ports.val[i].container_port]])
        ELSE Err(MissingObject(".spec.container.ports"))

\* The claims collected with the data claim ahead of the backup claim.
extract_pvcsDataFirst(cluster) ==
    LET backup == cluster.spec.backup
        fromBackup == IF backup.some /\ backup.val.storage.kind = "Pvc"
                      THEN <<backup.val.storage.pvc>> ELSE << >>
        fromData   == IF cluster.spec.data.some THEN <<cluster.spec.data.val>> ELSE << >>
        fromUser   == IF cluster.spec.pvcs.some THEN cluster.spec.pvcs.val ELSE << >>
    IN  fromData \o fromBackup \o fromUser

extract_pvcs(cluster) ==
    LET backup == cluster.spec.backup
        fromBackup == IF backup.some /\ backup.val.storage.kind = "Pvc"
                      THEN <<backup.val.storage.pvc>> ELSE << >>
        fromData   == IF cluster.spec.data.some THEN <<cluster.spec.data.val>> ELSE << >>
        fromUser   == IF cluster.spec.pvcs.some THEN cluster.spec.pvcs.val ELSE << >>
    IN  fromBackup \o fromData \o fromUser

extract_owner_ref(cluster) == [kind |-> "XlineCluster", name |-> cluster.metadata.name]

extract_id(cluster) ==
    IF ~cluster.metadata.namespace.some THEN Err(MissingObject(".metadata.namespace"))
    ELSE IF ~cluster.metadata.name.some THEN Err(MissingObject(".metadata.name"))
    ELSE Ok([namespace |-> cluster.metadata.namespace.val, name |-> cluster.metadata.name.val])

\* Metadata that says whether the StatefulSet existed when it was built.
build_metadataStamped(namespace, name, owner_ref) ==
    [labels |-> [app |-> name, fresh |-> ~sts.some], name |-> name,
     namespace |-> namespace, owner_references |-> <<owner_ref>>]

build_metadata(namespace, name, owner_ref) ==
    [labels |-> [app |-> name], name |-> name, namespace |-> namespace,
     owner_references |-> <<owner_ref>>]

\* The Service that apply_headless_service applies.
HeadlessService(metadata, service_ports) ==
    [kind |-> "Service", metadata |-> metadata, cluster_ip |-> None,
     ports |-> service_ports, selector |-> metadata.labels]

\* apply_statefulset before its patch: the object to apply, or the error it returns.
BuildStatefulSet(name, cluster, pvcs, metadata) ==
    LET container == cluster.spec.container
        backup == cluster.spec.backup
        data == cluster.spec.data
        backupNamed == ~(backup.some /\ backup.val.storage.kind = "Pvc")
                       \/ backup.val.storage.pvc.metadata.name.some
        backup_mount ==
            IF backup.some /\ backup.val.storage.kind = "Pvc"
            THEN <<[name |-> backup.val.storage.pvc.metadata.name.val,
                    mount_path |-> DEFAULT_BACKUP_DIR]>>
            ELSE << >>
        data_mount ==
            IF data.some
            THEN <<[name |-> data.val.metadata.name.val, mount_path |-> DEFAULT_DATA_DIR]>>
            ELSE << >>
        spec_mounts == IF container.volume_mounts.some THEN container.volume_mounts.val
                       ELSE << >>
        mounts == spec_mounts \o backup_mount \o data_mount
    IN  IF ~backupNamed THEN Err(MissingObject(".spec.backup.pvc.metadata.name"))
        ELSE IF data.some /\ ~data.val.metadata.name.some
        THEN Err(MissingObject(".spec.data.metadata.name"))
        ELSE IF \E i \in 1..Len(spec_mounts) :
                    starts_with(spec_mounts[i].mount_path, DEFAULT_BACKUP_DIR)
        THEN Err(CannotMount(DEFAULT_BACKUP_DIR))
        ELSE IF \E i \in 1..Len(spec_mounts) :
                    starts_with(spec_mounts[i].mount_path, DEFAULT_DATA_DIR)
        THEN Err(CannotMount(DEFAULT_DATA_DIR))
        ELSE Ok([kind |-> "StatefulSet", metadata |-> metadata,
                 replicas |-> cluster.spec.size,
                 selector |-> metadata.labels,
                 service_name |-> name,
                 volume_claim_templates |-> pvcs,
                 max_unavailable |-> "50%",
                 template_labels |-> metadata.labels,
                 container |-> [ports |-> container.ports, volume_mounts |-> Some(mounts)]])

\* The CronJob that apply_backup_cron_job applies.
BackupCronJob(namespace, name, size, cron_schedule, metadata) ==
    [kind |-> "CronJob", metadata |-> metadata, concurrency_policy |-> "Forbid",
     schedule |-> cron_schedule,
     trigger |-> [name |-> name, size |-> size, namespace |-> namespace,
                  suffix |-> cluster_suffix, route |-> "/backup"],
     restart_policy |-> "OnFailure"]

\* A run of reconcile_once: the result, and the objects it applied in order.
\* failing holds the kinds whose server-side apply the API server refuses.
Run(result, applied) == [result |-> result, applied |-> applied]

\* A reconcile that goes on to the CronJob after the StatefulSet apply was refused.
reconcile_onceSwallow(cluster, failing) ==
    LET id == extract_id(cluster)
    IN  IF ~id.ok THEN Run(id, << >>)
        ELSE
        LET namespace == id.val.namespace
            name == id.val.name
            owner_ref == extract_owner_ref(cluster)
            pvcs == extract_pvcs(cluster)
            service_ports == extract_service_ports(cluster)
        IN  IF ~service_ports.ok THEN Run(service_ports, << >>)
            ELSE
            LET metadata == build_metadata(namespace, name, owner_ref)
                service == HeadlessService(metadata, service_ports.val)
            IN  IF "Service" \in failing THEN Run(Err(KubeError("Service")), << >>)
                ELSE
                LET statefulset == BuildStatefulSet(name, cluster, pvcs, metadata)
                    done == IF "StatefulSet" \in failing THEN <<service>>
                            ELSE <<service, statefulset.val>>
                IN  IF ~statefulset.ok THEN Run(statefulset, <<service>>)
                    ELSE IF ~cluster.spec.backup.some
                    THEN Run(Ok("unit"), done)
                    ELSE IF "CronJob" \in failing
                    THEN Run(Err(KubeError("CronJob")), done)
                    ELSE Run(Ok("unit"),
                             Append(done,
                               BackupCronJob(namespace, name, cluster.spec.size,
                                             cluster.spec.backup.val.cron, metadata)))

\* A reconcile that stops after the StatefulSet whether or not a backup is asked for.
reconcile_onceNoCron(cluster, failing) ==
    LET id == extract_id(cluster)
    IN  IF ~id.ok THEN Run(id, << >>)
        ELSE
        LET namespace == id.val.namespace
            name == id.val.name
            owner_ref == extract_owner_ref(cluster)
            pvcs == extract_pvcs(cluster)
            service_ports == extract_service_ports(cluster)
        IN  IF ~service_ports.ok THEN Run(service_ports, << >>)
            ELSE
            LET metadata == build_metadata(namespace, name, owner_ref)
                service == HeadlessService(metadata, service_ports.val)
            IN  IF "Service" \in failing THEN Run(Err(KubeError("Service")), << >>)
                ELSE
                LET statefulset == BuildStatefulSet(name, cluster, pvcs, metadata)
                IN  IF ~statefulset.ok THEN Run(statefulset, <<service>>)
                    ELSE IF "StatefulSet" \in failing
                    THEN Run(Err(KubeError("StatefulSet")), <<service>>)
                    ELSE Run(Ok("unit"), <<service, statefulset.val>>)

reconcile_once(cluster, failing) ==
    LET id == extract_id(cluster)
    IN  IF ~id.ok THEN Run(id, << >>)
        ELSE
        LET namespace == id.val.namespace
            name == id.val.name
            owner_ref == extract_owner_ref(cluster)
            pvcs == extract_pvcs(cluster)
            service_ports == extract_service_ports(cluster)
        IN  IF ~service_ports.ok THEN Run(service_ports, << >>)
            ELSE
            LET metadata == build_metadata(namespace, name, owner_ref)
                service == HeadlessService(metadata, service_ports.val)
            IN  IF "Service" \in failing THEN Run(Err(KubeError("Service")), << >>)
                ELSE
                LET statefulset == BuildStatefulSet(name, cluster, pvcs, metadata)
                IN  IF ~statefulset.ok THEN Run(statefulset, <<service>>)
                    ELSE IF "StatefulSet" \in failing
                    THEN Run(Err(KubeError("StatefulSet")), <<service>>)
                    ELSE IF ~cluster.spec.backup.some
                    THEN Run(Ok("unit"), <<service, statefulset.val>>)
                    ELSE IF "CronJob" \in failing
                    THEN Run(Err(KubeError("CronJob")), <<service, statefulset.val>>)
                    ELSE Run(Ok("unit"),
                             <<service, statefulset.val,
                               BackupCronJob(namespace, name, cluster.spec.size,
                                             cluster.spec.backup.val.cron, metadata)>>)

\* An apply that prunes: the object of a kind the run did not apply is deleted.
AfterApplyPrune(old, applied, kind) ==
    IF \E i \in 1..Len(applied) : applied[i].kind = kind
    THEN Some(applied[CHOOSE i \in 1..Len(applied) : applied[i].kind = kind])
    ELSE None

\* The object of a kind that a run applied, or the one the API server had.
AfterApply(old, applied, kind) ==
    IF \E i \in 1..Len(applied) : applied[i].kind = kind
    THEN Some(applied[CHOOSE i \in 1..Len(applied) : applied[i].kind = kind])
    ELSE old

\* How many calls of reconcile_once a run of the event loop holds.
MaxRuns == 2

InitReconciler ==
    /\ svc = None
    /\ sts = None
    /\ cron = None
    /\ rec_cluster = None
    /\ rec_result = None
    /\ rec_applied = << >>
    /\ rec_runs = 0

\* The event loop calls reconcile_once on an observed cluster.
Reconcile(cluster, failing) ==
    LET run == reconcile_once(cluster, failing)
    IN  /\ rec_runs < MaxRuns
        /\ rec_runs' = rec_runs + 1
        /\ svc' = AfterApply(svc, run.applied, "Service")
        /\ sts' = AfterApply(sts, run.applied, "StatefulSet")
        /\ cron' = AfterApply(cron, run.applied, "CronJob")
        /\ rec_cluster' = Some(cluster)
        /\ rec_result' = Some(run.result)
        /\ rec_applied' = [i \in 1..Len(run.applied) |-> run.applied[i].kind]
        /\ UNCHANGED <<aggVars, crdVars, cmpVars, probeVars, runVars, xhVars>>

NextReconciler ==
    \E cluster \in Clusters, failing \in ApiFailures : Reconcile(cluster, failing)

-----------------------------------------------------------------------------
(* The CRD lifecycle manager (operator-k8s/operator.rs, Operator::prepare_crd). *)

DigitChars == <<"0", "1", "2", "3", "4", "5", "6", "7", "8", "9">>

DigitValue(c) == (CHOOSE i \in 1..Len(DigitChars) : DigitChars[i] = c) - 1

RECURSIVE DecimalValue(_)
DecimalValue(s) ==
    IF s = << >> THEN 0
    ELSE 10 * DecimalValue(SubSeq(s, 1, Len(s) - 1)) + DigitValue(s[Len(s)])

InvalidVersion == [kind |-> "InvalidVersion"]

\* The panic of the assert! on an incompatible CRD; the message names the version.
Incompatible(current_version) == [kind |-> "Panic", current_version |-> current_version]

\* The timeout of tokio::time::timeout.
Elapsed == [kind |-> "Elapsed"]

\* str::parse::<ApiVersion<Cluster>>: a version of the form v<N> yields N.
ParseApiVersion(s) ==
    IF /\ Len(s) >= 2
       /\ s[1] = "v"
       /\ \A i \in 2..Len(s) : \E j \in 1..Len(DigitChars) : DigitChars[j] = s[i]
    THEN Ok(DecimalValue(Tail(s)))
    ELSE Err(InvalidVersion)

\* Cluster::version(&()): the version compiled into the operator.
CurrentVersion == <<"v", "2">>

\* The version names the API server may hold: lower, equal, higher, malformed.
VersionNames == {<<"v", "1">>, <<"v", "2">>, <<"v", "3">>, <<"v", "x">>}

MaxVersions == 2

VersionLists == UNION {[1..n -> VersionNames] : n \in 0..MaxVersions}

\* The CRD of the managed kind on the API server.
Crd(versions, established) == [versions |-> versions, established |-> established]

CrdChoices ==
    {None} \cup {Some(Crd(vs, e)) : vs \in VersionLists, e \in BOOLEAN}

\* Cluster::crd(): the embedded definition, as the API server stores it when created.
Definition == Crd(<<CurrentVersion>>, FALSE)

\* Patch::Merge(definition): the versions become those of the definition.
MergePatch(crd) == [crd EXCEPT !.versions = Definition.versions]

\* What prepare_crd did before it waits or returns.
CrdRun(writes, server, result) == [writes |-> writes, server |-> server, result |-> result]

\* prepare_crd where the strict comparison with every version also takes an equal one.
prepare_crdAtLeast(server, force, list_ok, write_ok) ==
    IF ~list_ok THEN CrdRun(<< >>, server, Some(Err(KubeError("list"))))
    ELSE IF ~server.some
    THEN IF write_ok THEN CrdRun(<<"create">>, Some(Definition), None)
         ELSE CrdRun(<<"create">>, server, Some(Err(KubeError("create"))))
    ELSE
    LET names == server.val.versions
        current_version == ParseApiVersion(CurrentVersion)
        versions == [i \in 1..Len(names) |-> ParseApiVersion(names[i])]
        patched == IF write_ok THEN Some(MergePatch(server.val)) ELSE server
    IN  IF ~current_version.ok THEN CrdRun(<< >>, server, Some(current_version))
        ELSE IF \E i \in 1..Len(versions) : ~versions[i].ok
        THEN CrdRun(<< >>, server, Some(Err(InvalidVersion)))
        ELSE IF \A i \in 1..Len(versions) : current_version.val >= versions[i].val
        THEN CrdRun(<<"patch">>, patched,
                    Some(IF write_ok THEN Ok("unit") ELSE Err(KubeError("patch"))))
        ELSE IF ~(force \/ ~\E i \in 1..Len(versions) : versions[i].val > current_version.val)
        THEN CrdRun(<< >>, server, Some(Err(Incompatible(CurrentVersion))))
        ELSE IF force
        THEN CrdRun(<<"patch">>, patched,
                    IF write_ok THEN None ELSE Some(Err(KubeError("patch"))))
        ELSE CrdRun(<< >>, server, None)

\* prepare_crd without the assert! on a higher version.
prepare_crdNoAssert(server, force, list_ok, write_ok) ==
    IF ~list_ok THEN CrdRun(<< >>, server, Some(Err(KubeError("list"))))
    ELSE IF ~server.some
    THEN IF write_ok THEN CrdRun(<<"create">>, Some(Definition), None)
         ELSE CrdRun(<<"create">>, server, Some(Err(KubeError("create"))))
    ELSE
    LET names == server.val.versions
        current_version == ParseApiVersion(CurrentVersion)
        versions == [i \in 1..Len(names) |-> ParseApiVersion(names[i])]
        patched == IF write_ok THEN Some(MergePatch(server.val)) ELSE server
    IN  IF ~current_version.ok THEN CrdRun(<< >>, server, Some(current_version))
        ELSE IF \E i \in 1..Len(versions) : ~versions[i].ok
        THEN CrdRun(<< >>, server, Some(Err(InvalidVersion)))
        ELSE IF \A i \in 1..Len(versions) : current_version.val > versions[i].val
        THEN CrdRun(<<"patch">>, patched,
                    Some(IF write_ok THEN Ok("unit") ELSE Err(KubeError("patch"))))
        ELSE IF force \/ \E i \in 1..Len(versions) : versions[i].val > current_version.val
        THEN CrdRun(<<"patch">>, patched,
                    IF write_ok THEN None ELSE Some(Err(KubeError("patch"))))
        ELSE CrdRun(<< >>, server, None)

\* prepare_crd whose assert! does not look at create_crd.
prepare_crdStrictAssert(server, force, list_ok, write_ok) ==
    IF ~list_ok THEN CrdRun(<< >>, server, Some(Err(KubeError("list"))))
    ELSE IF ~server.some
    THEN IF write_ok THEN CrdRun(<<"create">>, Some(Definition), None)
         ELSE CrdRun(<<"create">>, server, Some(Err(KubeError("create"))))
    ELSE
    LET names == server.val.versions
        current_version == ParseApiVersion(CurrentVersion)
        versions == [i \in 1..Len(names) |-> ParseApiVersion(names[i])]
        patched == IF write_ok THEN Some(MergePatch(server.val)) ELSE server
    IN  IF ~current_version.ok THEN CrdRun(<< >>, server, Some(current_version))
        ELSE IF \E i \in 1..Len(versions) : ~versions[i].ok
        THEN CrdRun(<< >>, server, Some(Err(InvalidVersion)))
        ELSE IF \A i \in 1..Len(versions) : current_version.val > versions[i].val
        THEN CrdRun(<<"patch">>, patched,
                    Some(IF write_ok THEN Ok("unit") ELSE Err(KubeError("patch"))))
        ELSE IF \E i \in 1..Len(versions) : versions[i].val > current_version.val
        THEN CrdRun(<< >>, server, Some(Err(Incompatible(CurrentVersion))))
        ELSE IF force
        THEN CrdRun(<<"patch">>, patched,
                    IF write_ok THEN None ELSE Some(Err(KubeError("patch"))))
        ELSE CrdRun(<< >>, server, None)

\* prepare_crd up to its await of the condition: the writes it issued, the CRD the
\* API server then holds, and the result if it returned (None: it goes on to wait).
\* force is config.create_crd; list_ok and write_ok say how the API server answers.
prepare_crd(server, force, list_ok, write_ok) ==
    IF ~list_ok THEN CrdRun(<< >>, server, Some(Err(KubeError("list"))))
    ELSE IF ~server.some
    THEN IF write_ok THEN CrdRun(<<"create">>, Some(Definition), None)
         ELSE CrdRun(<<"create">>, server, Some(Err(KubeError("create"))))
    ELSE
    LET names == server.val.versions
        current_version == ParseApiVersion(CurrentVersion)
        versions == [i \in 1..Len(names) |-> ParseApiVersion(names[i])]
        patched == IF write_ok THEN Some(MergePatch(server.val)) ELSE server
    IN  IF ~current_version.ok THEN CrdRun(<< >>, server, Some(current_version))
        ELSE IF \E i \in 1..Len(versions) : ~versions[i].ok
        THEN CrdRun(<< >>, server, Some(Err(InvalidVersion)))
        ELSE IF \A i \in 1..Len(versions) : current_version.val > versions[i].val
        THEN \* patch, then `return Ok(())`
             CrdRun(<<"patch">>, patched,
                    Some(IF write_ok THEN Ok("unit") ELSE Err(KubeError("patch"))))
        ELSE IF ~(force \/ ~\E i \in 1..Len(versions) : versions[i].val > current_version.val)
        THEN CrdRun(<< >>, server, Some(Err(Incompatible(CurrentVersion))))
        ELSE IF force
        THEN CrdRun(<<"patch">>, patched,
                    IF write_ok THEN None ELSE Some(Err(KubeError("patch"))))
        ELSE CrdRun(<< >>, server, None)

InitCrd ==
    /\ pc_crd = "idle"
    /\ create_crd = FALSE
    /\ crd_server = None
    /\ crd_listed = None
    /\ crd_writes = << >>
    /\ crd_result = None

\* Operator::run calls prepare_crd with its config, against some API server.
CallPrepareCrd ==
    /\ pc_crd = "idle"
    /\ pc_crd' = "start"
    /\ create_crd' \in BOOLEAN
    /\ crd_server' \in CrdChoices
    /\ UNCHANGED <<crd_listed, crd_writes, crd_result>>
    /\ UNCHANGED <<aggVars, recVars, cmpVars, probeVars, runVars, xhVars>>

\* prepare_crd from the list of the CRDs to the await of the condition.
PrepareCrd(list_ok, write_ok) ==
    /\ pc_crd = "start"
    /\ LET run == prepare_crd(crd_server, create_crd, list_ok, write_ok)
       IN  /\ crd_writes' = run.writes
           /\ crd_server' = run.server
           /\ crd_result' = run.result
           /\ pc_crd' = IF run.result.some THEN "done" ELSE "await"
    /\ crd_listed' =
          IF ~list_ok THEN None
          ELSE Some(IF crd_server.some THEN Some(crd_server.val.versions) ELSE None)
    /\ UNCHANGED create_crd
    /\ UNCHANGED <<aggVars, recVars, cmpVars, probeVars, runVars, xhVars>>

\* The API server establishes the CRD it holds.
Establish ==
    /\ pc_crd \in {"start", "await"}
    /\ crd_server.some
    /\ ~crd_server.val.established
    /\ crd_server' = Some([crd_server.val EXCEPT !.established = TRUE])
    /\ UNCHANGED <<pc_crd, create_crd, crd_listed, crd_writes, crd_result>>
    /\ UNCHANGED <<aggVars, recVars, cmpVars, probeVars, runVars, xhVars>>

\* A wait that gives up after the timeout and reports success.
AwaitTimeoutIgnored ==
    /\ pc_crd = "await"
    /\ ~(crd_server.some /\ crd_server.val.established)
    /\ pc_crd' = "done"
    /\ crd_result' = Some(Ok("unit"))
    /\ UNCHANGED <<create_crd, crd_server, crd_listed, crd_writes>>
    /\ UNCHANGED <<aggVars, recVars, cmpVars, probeVars, runVars, xhVars>>

\* await_condition(.., is_crd_established()) completes within the timeout.
AwaitEstablished ==
    /\ pc_crd = "await"
    /\ crd_server.some
    /\ crd_server.val.established
    /\ pc_crd' = "done"
    /\ crd_result' = Some(Ok("unit"))
    /\ UNCHANGED <<create_crd, crd_server, crd_listed, crd_writes>>
    /\ UNCHANGED <<aggVars, recVars, cmpVars, probeVars, runVars, xhVars>>

\* CRD_ESTABLISH_TIMEOUT passes before the condition holds.
AwaitTimeout ==
    /\ pc_crd = "await"
    /\ ~(crd_server.some /\ crd_server.val.established)
    /\ pc_crd' = "done"
    /\ crd_result' = Some(Err(Elapsed))
    /\ UNCHANGED <<create_crd, crd_server, crd_listed, crd_writes>>
    /\ UNCHANGED <<aggVars, recVars, cmpVars, probeVars, runVars, xhVars>>

\* The watch of await_condition fails.
AwaitError ==
    /\ pc_crd = "await"
    /\ pc_crd' = "done"
    /\ crd_result' = Some(Err(KubeError("watch")))
    /\ UNCHANGED <<create_crd, crd_server, crd_listed, crd_writes>>
    /\ UNCHANGED <<aggVars, recVars, cmpVars, probeVars, runVars, xhVars>>

NextCrd ==
    \/ CallPrepareCrd
    \/ \E list_ok \in BOOLEAN, write_ok \in BOOLEAN : PrepareCrd(list_ok, write_ok)
    \/ Establish
    \/ AwaitEstablished
    \/ AwaitTimeout
    \/ AwaitError

-----------------------------------------------------------------------------
(* The version comparator (utils/migration.rs, compare_versions).           *)

\* u32::MAX, in decimal digits.
U32MaxDigits == <<"4", "2", "9", "4", "9", "6", "7", "2", "9", "5">>

IsDigit(c) == \E j \in 1..Len(DigitChars) : DigitChars[j] = c

RECURSIVE StripZeros(_)
StripZeros(digits) ==
    IF Len(digits) > 1 /\ digits[1] = "0" THEN StripZeros(Tail(digits)) ELSE digits

\* a <= b for digit strings of the same length.
DigitsLe(a, b) ==
    \/ a = b
    \/ \E i \in 1..Len(a) :
          /\ \A j \in 1..(i - 1) : a[j] = b[j]
          /\ DigitValue(a[i]) < DigitValue(b[i])

\* The number the digits denote is at most u32::MAX.
FitsU32(digits) ==
    LET d == StripZeros(digits)
    IN  \/ Len(d) < Len(U32MaxDigits)
        \/ Len(d) = Len(U32MaxDigits) /\ DigitsLe(d, U32MaxDigits)

ParseIntError(kind) == [kind |-> "ParseIntError", cause |-> kind]

\* str::parse::<u32>: an optional '+', then one or more digits, within u32.
ParseU32(s) ==
    IF s = << >> THEN Err(ParseIntError("Empty"))
    ELSE LET digits == IF s[1] = "+" THEN Tail(s) ELSE s
         IN  IF digits = << >> \/ \E i \in 1..Len(digits) : ~IsDigit(digits[i])
             THEN Err(ParseIntError("InvalidDigit"))
             ELSE IF ~FitsU32(digits) THEN Err(ParseIntError("PosOverflow"))
             ELSE Ok(DecimalValue(digits))

\* str::trim_start_matches(c): every leading c is removed.
RECURSIVE trim_start_matches(_, _)
trim_start_matches(s, c) ==
    IF s # << >> /\ s[1] = c THEN trim_start_matches(Tail(s), c) ELSE s

\* A comparison that orders the versions by their first digit, as text is ordered.
compare_versionsAsText(version1, version2) ==
    LET text1 == trim_start_matches(version1, "v")
        text2 == trim_start_matches(version2, "v")
        v1_parts == ParseU32(text1)
        v2_parts == ParseU32(text2)
        lead1 == DigitValue(IF text1[1] = "+" THEN text1[2] ELSE text1[1])
        lead2 == DigitValue(IF text2[1] = "+" THEN text2[2] ELSE text2[1])
    IN  IF ~v1_parts.ok THEN v1_parts
        ELSE IF ~v2_parts.ok THEN v2_parts
        ELSE IF lead1 > lead2 THEN Ok("Greater")
        ELSE IF lead2 > lead1 THEN Ok("Less")
        ELSE IF v1_parts.val > v2_parts.val THEN Ok("Greater")
        ELSE IF v2_parts.val > v1_parts.val THEN Ok("Less")
        ELSE Ok("Equal")

compare_versions(version1, version2) ==
    LET v1_parts == ParseU32(trim_start_matches(version1, "v"))
        v2_parts == ParseU32(trim_start_matches(version2, "v"))
    IN  IF ~v1_parts.ok THEN v1_parts
        ELSE IF ~v2_parts.ok THEN v2_parts
        ELSE IF v1_parts.val > v2_parts.val THEN Ok("Greater")
        ELSE IF v2_parts.val > v1_parts.val THEN Ok("Less")
        ELSE Ok("Equal")

\* The version strings the comparator is called with.
VersionStrings ==
    { <<"v", "0">>,
      <<"v", "1">>,
      <<"v", "0", "1">>,
      <<"v", "2">>,
      <<"v", "1", "0">>,
      <<"v", "4", "2", "9", "4", "9", "6", "7", "2", "9", "6">>,
      <<"v", "x">>,
      <<"v">>,
      << >>,
      <<"1">>,
      <<"v", "v", "1">>,
      <<"v", "+", "1">>,
      <<"v", "-", "1">>,
      <<"v", "1", "x">>,
      <<"V", "1">> }

InitCompare ==
    /\ cmp_args = << >>
    /\ cmp_result = None

\* A call of compare_versions.
CompareVersions(version1, version2) ==
    /\ cmp_args' = <<version1, version2>>
    /\ cmp_result' = Some(compare_versions(version1, version2))
    /\ UNCHANGED <<aggVars, recVars, crdVars, probeVars, runVars, xhVars>>

NextCompare ==
    \E version1 \in VersionStrings, version2 \in VersionStrings :
        CompareVersions(version1, version2)

-----------------------------------------------------------------------------
(* The sidecar's probe (sidecar/health.rs, Health::probe).                  *)

\* The seconds since the epoch a probe may read from the clock.
ProbeTimestamps == {100, 110}

\* The members whose request succeeded, in the order the requests completed.
CompletionOrders(members) == UNION {IterationOrders(S) : S \in SUBSET members}

Contains(status, id) == \E i \in 1..Len(status) : status[i] = id

\* How many heartbeats a run of the task delivers.
MaxHeartbeats == 2

\* The error of a request that got no response (reqwest::Error).
ReqwestError == [kind |-> "Reqwest"]

InitProbe ==
    /\ probe_self = ""
    /\ probe_members = {}
    /\ probe_ok = << >>
    /\ probe_status = None
    /\ task_pc = "tick"
    /\ task_result = None
    /\ hb_sent = 0
    /\ operator_up = TRUE

\* Health::new: the id and the members (the keys of a map) of the configuration.
NewHealth(id, members) ==
    /\ probe_self = ""
    /\ probe_self' = id
    /\ probe_members' = members
    /\ UNCHANGED <<probe_ok, probe_status, task_pc, task_result, hb_sent, operator_up>>
    /\ UNCHANGED <<aggVars, recVars, crdVars, cmpVars, runVars, xhVars>>

\* A probe that adds its own id whether or not it is already there.
ProbePushAlways(ok, timestamp) ==
    /\ probe_self # ""
    /\ task_pc = "tick"
    /\ task_pc' = "send"
    /\ probe_ok' = ok
    /\ probe_status' = Some(HeartbeatStatus(probe_self, timestamp, Append(ok, probe_self)))
    /\ UNCHANGED <<probe_self, probe_members, task_result, hb_sent, operator_up>>
    /\ UNCHANGED <<aggVars, recVars, crdVars, cmpVars, runVars, xhVars>>

\* An interval tick of probe_task and its call of Health::probe: the ids of the
\* requests that succeeded, then the own id if it is not among them.
Probe(ok, timestamp) ==
    /\ probe_self # ""
    /\ task_pc = "tick"
    /\ task_pc' = "send"
    /\ probe_ok' = ok
    /\ LET status == IF ~Contains(ok, probe_self) THEN Append(ok, probe_self) ELSE ok
       IN  probe_status' = Some(HeartbeatStatus(probe_self, timestamp, status))
    /\ UNCHANGED <<probe_self, probe_members, task_result, hb_sent, operator_up>>
    /\ UNCHANGED <<aggVars, recVars, crdVars, cmpVars, runVars, xhVars>>

\* A task that logs a failed post and goes on with the next tick.
SendHeartbeatRetrying ==
    /\ task_pc = "send"
    /\ IF operator_up
       THEN /\ hb_sent < MaxHeartbeats
            /\ hb_sent' = hb_sent + 1
       ELSE UNCHANGED hb_sent
    /\ task_pc' = "tick"
    /\ UNCHANGED <<probe_self, probe_members, probe_ok, probe_status, task_result,
                   operator_up>>
    /\ UNCHANGED <<aggVars, recVars, crdVars, cmpVars, runVars, xhVars>>

\* send_heartbeat and the `?` of probe_task: the post is answered and the loop goes
\* on, or it is not and the task returns the error.
SendHeartbeat ==
    /\ task_pc = "send"
    /\ IF operator_up
       THEN /\ hb_sent < MaxHeartbeats
            /\ hb_sent' = hb_sent + 1
            /\ task_pc' = "tick"
            /\ UNCHANGED task_result
       ELSE /\ task_pc' = "returned"
            /\ task_result' = Some(Err(ReqwestError))
            /\ UNCHANGED hb_sent
    /\ UNCHANGED <<probe_self, probe_members, probe_ok, probe_status, operator_up>>
    /\ UNCHANGED <<aggVars, recVars, crdVars, cmpVars, runVars, xhVars>>

\* The deploy operator goes away or comes back.
OperatorChange ==
    /\ probe_self # ""
    /\ operator_up' = ~operator_up
    /\ UNCHANGED <<probe_self, probe_members, probe_ok, probe_status, task_pc,
                   task_result, hb_sent>>
    /\ UNCHANGED <<aggVars, recVars, crdVars, cmpVars, runVars, xhVars>>

NextProbe ==
    \/ \E id \in Ids, members \in SUBSET Ids : NewHealth(id, members)
    \/ \E ok \in CompletionOrders(probe_members), timestamp \in ProbeTimestamps :
          Probe(ok, timestamp)
    \/ SendHeartbeat
    \/ OperatorChange

-----------------------------------------------------------------------------
(* The sidecar operator's run loop (sidecar/operator.rs, Operator::run).    *)

\* How many results of reconcile_once a run records.
MaxReconciles == 4

MaxFailures == 3

Shutdown == "Shutdown"

\* What Controller::reconcile_once may answer: Shutdown only once the graceful
\* request was sent on the channel it is given.
ReconcileResults ==
    {Ok("instant"), Err("Other")} \cup (IF graceful_sent THEN {Err(Shutdown)} ELSE {})

InitRun ==
    /\ run_pc = "loop"
    /\ shutdown_stage = 0
    /\ graceful_sent = FALSE
    /\ run_exit = None
    /\ reconciles = 0
    /\ failures = 0

\* forceful_shutdown passes its first ctrl_c().await and sends on graceful_tx.
FirstInterrupt ==
    /\ run_pc = "loop"
    /\ shutdown_stage = 0
    /\ shutdown_stage' = 1
    /\ graceful_sent' = TRUE
    /\ UNCHANGED <<run_pc, run_exit, reconciles, failures>>
    /\ UNCHANGED <<aggVars, recVars, crdVars, cmpVars, probeVars, xhVars>>

\* forceful_shutdown passes its second ctrl_c().await: the future completes.
SecondInterrupt ==
    /\ run_pc = "loop"
    /\ shutdown_stage = 1
    /\ shutdown_stage' = 2
    /\ UNCHANGED <<run_pc, graceful_sent, run_exit, reconciles, failures>>
    /\ UNCHANGED <<aggVars, recVars, crdVars, cmpVars, probeVars, xhVars>>

\* select! takes the branch of forceful_shutdown once it has completed.
ForcefulBreak ==
    /\ run_pc = "loop"
    /\ shutdown_stage = 2
    /\ run_pc' = "exited"
    /\ run_exit' = Some("forceful")
    /\ UNCHANGED <<shutdown_stage, graceful_sent, reconciles, failures>>
    /\ UNCHANGED <<aggVars, recVars, crdVars, cmpVars, probeVars, xhVars>>

\* A loop that ends at any failed reconcile.
ReconcileOnceBreakOnError(res) ==
    /\ run_pc = "loop"
    /\ IF res.ok
       THEN /\ reconciles < MaxReconciles
            /\ reconciles' = reconciles + 1
            /\ UNCHANGED <<run_pc, run_exit, failures>>
       ELSE /\ run_pc' = "exited"
            /\ run_exit' = Some("graceful")
            /\ UNCHANGED <<reconciles, failures>>
    /\ UNCHANGED <<shutdown_stage, graceful_sent>>
    /\ UNCHANGED <<aggVars, recVars, crdVars, cmpVars, probeVars, xhVars>>

\* select! takes the branch of reconcile_once, which answered res.
ReconcileOnce(res) ==
    /\ run_pc = "loop"
    /\ IF res.ok
       THEN /\ reconciles < MaxReconciles
            /\ reconciles' = reconciles + 1
            /\ UNCHANGED <<run_pc, run_exit, failures>>
       ELSE IF res.err = Shutdown
            THEN /\ run_pc' = "exited"
                 /\ run_exit' = Some("graceful")
                 /\ UNCHANGED <<reconciles, failures>>
            ELSE /\ failures < MaxFailures
                 /\ failures' = failures + 1
                 /\ UNCHANGED <<run_pc, run_exit, reconciles>>
    /\ UNCHANGED <<shutdown_stage, graceful_sent>>
    /\ UNCHANGED <<aggVars, recVars, crdVars, cmpVars, probeVars, xhVars>>

NextRun ==
    \/ FirstInterrupt
    \/ SecondInterrupt
    \/ ForcefulBreak
    \/ \E res \in ReconcileResults : ReconcileOnce(res)

-----------------------------------------------------------------------------
(* The xline handles (operator-api/xline.rs): LocalXlineHandle and         *)
(* K8sXlineHandle.                                                         *)

\* How many processes a run launches.
MaxLaunches == 3

HandleKinds == {"local", "k8s"}

\* The members a start is given (the keys of the map).
MemberMaps == {{"A"}, {"A", "B", "C"}}

\* The process that the n-th launch creates, running the command for members.
Process(n, members) == [pid |-> n, members |-> members]

IoError == [kind |-> "Io"]

KubeExecError == [kind |-> "Kube", inner |-> "exec"]

InitXline ==
    /\ xh_kind = "none"
    /\ xh_proc = None
    /\ xh_live = {}
    /\ xh_launched = 0
    /\ xh_call = "new"
    /\ xh_result = None

\* LocalXlineHandle::new, K8sXlineHandle::new_with_client: no process is tracked.
NewHandle(kind) ==
    /\ xh_kind = "none"
    /\ xh_kind' = kind
    /\ UNCHANGED <<xh_proc, xh_live, xh_launched, xh_call, xh_result>>
    /\ UNCHANGED <<aggVars, recVars, crdVars, cmpVars, probeVars, runVars>>

\* kill: the tracked process is taken out of the handle, then killed (Child::kill,
\* which may fail) or aborted (AttachedProcess::abort, which returns nothing).
kill(kind, proc, live, kill_ok) ==
    IF proc.some
    THEN IF kind = "k8s" \/ kill_ok
         THEN [result |-> Ok("unit"), proc |-> None, live |-> live \ {proc.val}]
         ELSE [result |-> Err(IoError), proc |-> None, live |-> live]
    ELSE [result |-> Ok("unit"), proc |-> None, live |-> live]

\* XlineHandle::kill
Kill(kill_ok) ==
    /\ xh_kind # "none"
    /\ LET k == kill(xh_kind, xh_proc, xh_live, kill_ok)
       IN  /\ xh_proc' = k.proc
           /\ xh_live' = k.live
           /\ xh_result' = Some(k.result)
    /\ xh_call' = "kill"
    /\ UNCHANGED <<xh_kind, xh_launched>>
    /\ UNCHANGED <<aggVars, recVars, crdVars, cmpVars, probeVars, runVars>>

\* A start that launches without killing the process it tracks.
StartNoKill(members, kill_ok, spawn_ok) ==
    /\ xh_kind # "none"
    /\ IF ~spawn_ok
       THEN /\ xh_proc' = None
            /\ xh_result' = Some(Err(IF xh_kind = "local" THEN IoError ELSE KubeExecError))
            /\ UNCHANGED <<xh_live, xh_launched>>
       ELSE /\ xh_launched < MaxLaunches
            /\ LET proc == Process(xh_launched + 1, members)
               IN  /\ xh_proc' = Some(proc)
                   /\ xh_live' = xh_live \cup {proc}
            /\ xh_launched' = xh_launched + 1
            /\ xh_result' = Some(Ok("unit"))
    /\ xh_call' = "start"
    /\ UNCHANGED xh_kind
    /\ UNCHANGED <<aggVars, recVars, crdVars, cmpVars, probeVars, runVars>>

\* XlineHandle::start: `self.kill().await?`, then the command is spawned (local) or
\* executed in the pod (k8s) and the new process is tracked.
Start(members, kill_ok, spawn_ok) ==
    /\ xh_kind # "none"
    /\ LET k == kill(xh_kind, xh_proc, xh_live, kill_ok)
       IN  IF ~k.result.ok
           THEN /\ xh_proc' = k.proc
                /\ xh_live' = k.live
                /\ xh_result' = Some(k.result)
                /\ UNCHANGED xh_launched
           ELSE IF ~spawn_ok
           THEN /\ xh_proc' = k.proc
                /\ xh_live' = k.live
                /\ xh_result' = Some(Err(IF xh_kind = "local" THEN IoError
                                         ELSE KubeExecError))
                /\ UNCHANGED xh_launched
           ELSE /\ xh_launched < MaxLaunches
                /\ LET proc == Process(xh_launched + 1, members)
                   IN  /\ xh_proc' = Some(proc)
                       /\ xh_live' = k.live \cup {proc}
                /\ xh_launched' = xh_launched + 1
                /\ xh_result' = Some(Ok("unit"))
    /\ xh_call' = "start"
    /\ UNCHANGED xh_kind
    /\ UNCHANGED <<aggVars, recVars, crdVars, cmpVars, probeVars, runVars>>

NextXline ==
    \/ \E kind \in HandleKinds : NewHandle(kind)
    \/ \E kill_ok \in BOOLEAN : Kill(kill_ok)
    \/ \E members \in MemberMaps, kill_ok \in BOOLEAN, spawn_ok \in BOOLEAN :
          Start(members, kill_ok, spawn_ok)

-----------------------------------------------------------------------------
(* The specifications.                                                     *)

Init ==
    /\ InitAggregator /\ InitReconciler /\ InitCrd /\ InitCompare
    /\ InitProbe /\ InitRun /\ InitXline

\* The liveness aggregator alone.
Spec == Init /\ [][NextAggregator]_vars

\* The reconciler alone.
SpecReconciler == Init /\ [][NextReconciler]_vars

\* The CRD lifecycle manager alone.
SpecCrd == Init /\ [][NextCrd]_vars

\* The version comparator alone.
SpecCompare == Init /\ [][NextCompare]_vars

\* The sidecar's probe alone.
SpecProbe == Init /\ [][NextProbe]_vars

\* An xline handle alone.
SpecXline == Init /\ [][NextXline]_vars

\* The sidecar operator's run loop alone; select! picks among its ready branches at
\* random, so a branch that stays ready is taken eventually.
SpecRun == Init /\ [][NextRun]_vars /\ WF_vars(ForcefulBreak)

-----------------------------------------------------------------------------
(* Views of the aggregator's state used by the properties.                 *)

Elems(seq) == {seq[i] : i \in 1..Len(seq)}

\* The names for which the last round issued a delete request.
DeletedNames == {r.name : r \in delete_calls}

\* The last round found k offline and dropped it from the cache without deleting it:
\* k's counter reached the threshold.
GaveUpOn(k) ==
    /\ pc_agg = "loop"
    /\ Offline(statuses, k)
    /\ k \notin DOMAIN unreachable
    /\ k \notin DeletedNames

\* The configuration of the test sequences.
TestConfig == majority = 2 /\ heartbeat_period = 10 /\ unreachable_thresh = 2

After(script, n) == fed = OnScript(SubSeq(script, 1, n))

NewestTimestamp(m) ==
    CHOOSE t \in {m[k].timestamp : k \in DOMAIN m} :
        \A k \in DOMAIN m : m[k].timestamp <= t

\* The statuses of m that are within the period from the newest one.
FreshSet(m) ==
    {m[k] : k \in {x \in DOMAIN m : m[x].timestamp + heartbeat_period >= NewestTimestamp(m)}}

\* The number of times the fresh statuses of m list k.
FreshOccurrences(m, k) ==
    Cardinality(UNION {{<<s.id, j>> : j \in {i \in 1..Len(s.reachable_ids) :
                                                s.reachable_ids[i] = k}} :
                       s \in FreshSet(m)})

\* The known sidecars whose latest report omits k.
Omitters(m, k) == {i \in DOMAIN m : k \notin Elems(m[i].reachable_ids)}

-----------------------------------------------------------------------------
(* The properties of the aggregator, checked under Spec.  In a step of      *)
(* ReceiveStatus, statuses' is the map the round worked on.                *)

\* C1: a round that finds a known id k offline (with at least majority accepted
\* reports) while k is not in `unreachable` issues exactly one delete request, for
\* the Pod named k, and inserts k into `unreachable` with counter 0.
C1_OfflineIdIsPodDeleted ==
    [][pc_agg = "loop" =>
        LET v == RoundView(statuses')
        IN  \A k \in Ids :
                (OfflineIn(v, k) /\ k \notin DOMAIN unreachable) =>
                    /\ \E ok \in BOOLEAN :
                          {r \in delete_calls' : r.name = k}
                              = {[api |-> "Pod", name |-> k, ok |-> ok]}
                    /\ k \in DOMAIN unreachable'
                    /\ unreachable'[k] = 0]_vars

\* The same round, whatever API the delete request goes to: one request named k,
\* and k enters `unreachable` with counter 0; after the first five reports of the
\* majority sequence the only request was the one named C.
C1_OfflineIdIsDeletedOnSomeApi ==
    [][pc_agg = "loop" =>
        LET v == RoundView(statuses')
        IN  /\ \A k \in Ids :
                  (OfflineIn(v, k) /\ k \notin DOMAIN unreachable) =>
                      /\ Cardinality({r \in delete_calls' : r.name = k}) = 1
                      /\ k \in DOMAIN unreachable'
                      /\ unreachable'[k] = 0
            /\ (TestConfig /\ \E n \in 1..4 : After(MajorityScript, n)')
                  => delete_calls' = {} /\ unreachable' = EmptyMap
            /\ (TestConfig /\ After(MajorityScript, 5)')
                  => DeletedNames' = {"C"} /\ unreachable' = [k \in {"C"} |-> 0]]_vars

\* C2 (as claimed): after the seven reports of the majority sequence `unreachable`
\* is {C: 1} and the reports at t=120 caused no delete.
C2_ScriptLeavesOnlyC ==
    /\ (TestConfig /\ After(MajorityScript, 6)) => delete_calls = {}
    /\ (TestConfig /\ After(MajorityScript, 7)) =>
            delete_calls = {} /\ unreachable = [k \in {"C"} |-> 1]

\* C2 (amended): A@120 reach={A} makes the round delete A and B as well (each is
\* listed by one accepted report only) and moves C to 1; B@120 then moves A and B to
\* 1 and drops C, whose counter reaches the threshold 2; no delete on that round.
C2_ScriptEvictsAAndB ==
    /\ (TestConfig /\ After(MajorityScript, 5)) =>
            DeletedNames = {"C"} /\ unreachable = [k \in {"C"} |-> 0]
    /\ (TestConfig /\ After(MajorityScript, 6)) =>
            /\ DeletedNames = {"A", "B"}
            /\ unreachable = [k \in {"A", "B", "C"} |-> IF k = "C" THEN 1 ELSE 0]
    /\ (TestConfig /\ After(MajorityScript, 7)) =>
            delete_calls = {} /\ unreachable = [k \in {"A", "B"} |-> 1]

C2_Witness == TestConfig /\ After(MajorityScript, 7)

\* C3: a round that finds k offline while k is in `unreachable` issues no delete for
\* k; it increments k's counter by one, or removes k when the incremented counter
\* equals unreachable_thresh.
C3_CachedOfflineIdIsCounted ==
    [][pc_agg = "loop" =>
        LET v == RoundView(statuses')
        IN  \A k \in DOMAIN unreachable :
                OfflineIn(v, k) =>
                    /\ k \notin DeletedNames'
                    /\ IF unreachable[k] + 1 = unreachable_thresh
                       THEN k \notin DOMAIN unreachable'
                       ELSE /\ k \in DOMAIN unreachable'
                            /\ unreachable'[k] = unreachable[k] + 1]_vars

C3_Witness ==
    \E k \in DOMAIN unreachable :
        Offline(statuses, k) /\ unreachable[k] = 1 /\ k \notin DeletedNames

\* C4: once the aggregator gave up on k (its counter reached the threshold), a round
\* that finds k still offline does not delete k again.
C4_NoEvictionLoop ==
    [][pc_agg = "loop" =>
        LET v == RoundView(statuses')
        IN  \A k \in Ids :
                (GaveUpOn(k) /\ OfflineIn(v, k)) => k \notin DeletedNames']_vars

\* C5 (as claimed): if fewer than majority of the known sidecars omit k from their
\* latest report, the round does not delete k.
C5_MinorityCannotEvict ==
    [][pc_agg = "loop" =>
        \A k \in DOMAIN statuses' :
            Cardinality(Omitters(statuses', k)) < majority => k \notin DeletedNames']_vars

\* C5 (amended): if every known sidecar's latest report lies in the accepted
\* window, at least 2 * majority - 1 sidecars are known, and fewer than majority of
\* them omit k from their latest report, the round does not delete k.
C5_MinorityCannotEvictInWindow ==
    [][pc_agg = "loop" =>
        LET v == RoundView(statuses')
        IN  \A k \in DOMAIN statuses' :
                (/\ Cardinality(Omitters(statuses', k)) < majority
                 /\ v.accepted = {statuses'[i] : i \in DOMAIN statuses'}
                 /\ Cardinality(DOMAIN statuses') >= 2 * majority - 1)
                    => k \notin DeletedNames']_vars

\* All three sidecars are in the window, one of them omits k, and k was not deleted.
C5_Witness ==
    /\ pc_agg = "loop"
    /\ AcceptedSet(statuses) = {statuses[i] : i \in DOMAIN statuses}
    /\ Cardinality(DOMAIN statuses) >= 2 * majority - 1
    /\ \E k \in DOMAIN statuses :
          /\ Omitters(statuses, k) # {}
          /\ Cardinality(Omitters(statuses, k)) < majority
          /\ k \notin DeletedNames

\* C6: a round whose accepted window holds fewer than majority reports issues no
\* delete and leaves `unreachable` as it was; only the sender's entry of the
\* statuses map changed.
C6_SmallWindowDoesNothing ==
    [][(pc_agg = "loop" /\ ~Evaluated(statuses')) =>
        /\ delete_calls' = {}
        /\ unreachable' = unreachable
        /\ DOMAIN statuses \subseteq DOMAIN statuses'
        /\ Cardinality({k \in DOMAIN statuses' :
                k \notin DOMAIN statuses \/ statuses'[k] # statuses[k]}) <= 1]_vars

C6_Witness ==
    /\ pc_agg = "loop"
    /\ statuses # EmptyMap
    /\ ~Evaluated(statuses)
    /\ unreachable # EmptyMap

\* C7: the accepted window is exactly the statuses whose timestamp +
\* heartbeat_period >= the newest stored timestamp, and the occurrences of an id in
\* these alone decide whether an evaluated round finds it online; after the recency
\* sequence the window is {A@200}, and nothing was deleted or cached.
C7_StaleReportsDoNotVote ==
    [][pc_agg = "loop" =>
        LET v == RoundView(statuses')
        IN  /\ v.accepted = FreshSet(statuses')
            /\ \A k \in DOMAIN statuses' :
                  v.evaluated =>
                      IF FreshOccurrences(statuses', k) >= majority
                      THEN k \notin DOMAIN unreachable' /\ k \notin DeletedNames'
                      ELSE \/ k \in DOMAIN unreachable'
                           \/ /\ k \in DOMAIN unreachable
                              /\ unreachable[k] + 1 = unreachable_thresh
            /\ (TestConfig /\ After(RecencyScript, 3)') =>
                  /\ v.accepted = {HeartbeatStatus("A", 200, <<"A">>)}
                  /\ ~v.evaluated
                  /\ delete_calls' = {}
                  /\ unreachable' = EmptyMap]_vars

C7_Witness == TestConfig /\ After(RecencyScript, 3)

\* C8: a round that finds k online removes k from `unreachable` and issues no delete
\* for k; an evaluated round whose accepted reports all list every known id issues
\* no delete and leaves `unreachable` empty.
C8_OnlineIdLeavesCache ==
    [][pc_agg = "loop" =>
        LET v == RoundView(statuses')
        IN  /\ \A k \in Ids :
                  OnlineIn(v, k) => k \notin DOMAIN unreachable' /\ k \notin DeletedNames'
            /\ (/\ v.evaluated
                /\ \A s \in v.accepted : v.known \subseteq Elems(s.reachable_ids))
                  => delete_calls' = {} /\ unreachable' = EmptyMap]_vars

\* C was cached by the fifth report and the two reports at t=200 brought it back.
C8_Witness ==
    /\ TestConfig
    /\ After(RecoveryScript, 7)
    /\ Online(statuses, "C")
    /\ "C" \notin DOMAIN unreachable

\* C9: an id whose delete request failed stays in `unreachable`, and the next round
\* that finds it still offline issues the delete again.
C9_FailedDeleteIsRetried ==
    [][pc_agg = "loop" =>
        LET v == RoundView(statuses')
        IN  \A k \in Ids :
                /\ (\E r \in delete_calls' : r.name = k /\ ~r.ok)
                      => k \in DOMAIN unreachable'
                /\ ((\E r \in delete_calls : r.name = k /\ ~r.ok) /\ OfflineIn(v, k))
                      => k \in DeletedNames']_vars

-----------------------------------------------------------------------------
C24_MajorityFixedAtStart ==
    [][/\ pc_agg = "new" =>
            /\ pc_agg' = "loop"
            /\ \/ \E n \in SpecSizes : majority' = (n + 1) \div 2
               \/ majority' = 1 /\ (FallbackSpecSize + 1) \div 2 = 1
       /\ pc_agg = "loop" => pc_agg' = "loop" /\ majority' = majority]_vars

C24_Witness ==
    /\ pc_agg = "loop"
    /\ majority = 1
    /\ Cardinality(DOMAIN statuses) = 3

\* C25: statuses holds one entry per id that ever reported, under its own id; a report
\* replaces the entry of its id, older timestamp or not, and leaves the others alone.
C25_LatestReceivedPerId ==
    [][pc_agg = "loop" =>
        /\ DOMAIN statuses \subseteq DOMAIN statuses'
        /\ \A k \in DOMAIN statuses' : statuses'[k].id = k
        /\ \E r \in Reports :
              /\ DOMAIN statuses' = DOMAIN statuses \cup {r.id}
              /\ statuses'[r.id] = r
              /\ \A k \in DOMAIN statuses \ {r.id} : statuses'[k] = statuses[k]
        /\ (fed'.on /\ fed'.seq # << >>) =>
              LET r == fed'.seq[Len(fed'.seq)]
              IN  /\ statuses'[r.id] = r
                  /\ DOMAIN statuses' = {fed'.seq[i].id : i \in 1..Len(fed'.seq)}]_vars

C25_Witness ==
    /\ After(OverwriteScript, 2)
    /\ statuses["A"] = HeartbeatStatus("A", 100, <<"A">>)

\* C28: every id with a counter in unreachable has an entry in statuses, and every
\* counter is at least 0 and below unreachable_threshold.
C28_CountersOfKnownIdsBelowThreshold ==
    /\ DOMAIN unreachable \subseteq DOMAIN statuses
    /\ \A k \in DOMAIN unreachable :
          unreachable[k] >= 0 /\ unreachable[k] < unreachable_thresh

C28_Witness ==
    /\ unreachable_thresh >= 1
    /\ Cardinality(DOMAIN statuses) >= 2
    /\ \E k \in DOMAIN unreachable : unreachable[k] = unreachable_thresh - 1

\* C29: a round asks to delete only ids that have an entry in statuses, so a member
\* that never reported is not deleted; no entry of statuses is ever removed.
C29_OnlyKnownIdsDeleted ==
    [][pc_agg = "loop" =>
        /\ DeletedNames' \subseteq DOMAIN statuses'
        /\ DOMAIN statuses \subseteq DOMAIN statuses']_vars

C29_Witness ==
    /\ pc_agg = "loop"
    /\ "C" \notin DOMAIN statuses
    /\ Evaluated(statuses)
    /\ CountOf(RoundView(statuses).counts, "C") < majority
    /\ DeletedNames # {}
    /\ "C" \notin DeletedNames

-----------------------------------------------------------------------------
(* The properties of the reconciler, checked under SpecReconciler.         *)

ReservedDirs == {DEFAULT_BACKUP_DIR, DEFAULT_DATA_DIR}

\* The reserved directories that some mount of the cluster's container starts with.
ReservedMounted(cluster) ==
    LET mounts == cluster.spec.container.volume_mounts
    IN  IF ~mounts.some THEN {}
        ELSE {d \in ReservedDirs :
                \E i \in 1..Len(mounts.val) : starts_with(mounts.val[i].mount_path, d)}

\* C10: a reconcile of a cluster with a mount under a reserved directory fails with
\* CannotMount of that directory and applies no child.
C10_ReservedMountAppliesNothing ==
    (rec_cluster.some /\ ReservedMounted(rec_cluster.val) # {}) =>
        /\ rec_result.val \in {Err(CannotMount(d)) : d \in ReservedMounted(rec_cluster.val)}
        /\ rec_applied = << >>

\* The last reconcile got past the extraction of the id.
IdComplete(cluster) == cluster.metadata.namespace.some /\ cluster.metadata.name.some

\* container.ports is absent or holds no port.
PortsEmpty(cluster) ==
    LET ports == cluster.spec.container.ports
    IN  ~ports.some \/ ports.val = << >>

\* C11: a reconcile of a cluster (with a namespace and a name) whose container.ports
\* is absent or an empty list fails with MissingObject(".spec.container.ports") and
\* applies no child.
C11_EmptyPortsAreMissing ==
    (rec_cluster.some /\ IdComplete(rec_cluster.val) /\ PortsEmpty(rec_cluster.val)) =>
        /\ rec_result.val = Err(MissingObject(".spec.container.ports"))
        /\ rec_applied = << >>

\* The order of the applies.
ApplyOrder == <<"Service", "StatefulSet", "CronJob">>

\* The position of a kind in the order of the applies.
ApplyIndex(kind) == CHOOSE i \in 1..Len(ApplyOrder) : ApplyOrder[i] = kind

\* The applies a reconcile of the cluster has to issue.
DueApplies(cluster) ==
    IF cluster.spec.backup.some THEN ApplyOrder ELSE SubSeq(ApplyOrder, 1, 2)

\* C12: the applies of a reconcile are a prefix of headless service, stateful
\* workload, backup cron job, the last only with a backup; a reconcile that returns
\* the API error of an apply applied exactly the kinds before it, and a reconcile
\* that succeeds applied all of them: no refused apply is passed over.
C12_AppliesInOrderStopAtError ==
    rec_result.some =>
        /\ IsPrefix(rec_applied, DueApplies(rec_cluster.val))
        /\ \A kind \in Elems(ApplyOrder) :
              rec_result.val = Err(KubeError(kind)) =>
                  rec_applied = SubSeq(ApplyOrder, 1, ApplyIndex(kind) - 1)
        /\ rec_result.val.ok => rec_applied = DueApplies(rec_cluster.val)

\* The CronJob apply of a cluster with a backup was refused after the two others.
C12_Witness ==
    /\ rec_result = Some(Err(KubeError("CronJob")))
    /\ rec_applied = <<"Service", "StatefulSet">>

CronJobIssued ==
    \/ "CronJob" \in Elems(rec_applied)
    \/ rec_result = Some(Err(KubeError("CronJob")))

\* C14: a reconcile that got the Service and the StatefulSet applied issues the
\* CronJob apply if and only if spec.backup is present; no reconcile of a cluster
\* without a backup issues it, and such a reconcile leaves the CronJob on the API
\* server as it was.
C14_CronJobIffBackup ==
    [][/\ CronJobIssued' => rec_cluster'.val.spec.backup.some
       /\ (Len(rec_applied') >= 2 /\ rec_cluster'.val.spec.backup.some) => CronJobIssued'
       /\ ~rec_cluster'.val.spec.backup.some => cron' = cron]_vars

\* A cluster without a backup was reconciled with success, after a reconcile of a
\* cluster with a backup left a CronJob.
C14_Witness ==
    /\ rec_result.some /\ rec_result.val.ok
    /\ ~rec_cluster.val.spec.backup.some
    /\ rec_applied = <<"Service", "StatefulSet">>
    /\ cron.some

\* The claims the StatefulSet of the cluster has to carry, from the cluster's fields.
ExpectedClaims(cluster) ==
    LET spec == cluster.spec
    IN  (IF spec.backup.some /\ spec.backup.val.storage.kind = "Pvc"
         THEN <<spec.backup.val.storage.pvc>> ELSE << >>)
        \o (IF spec.data.some THEN <<spec.data.val>> ELSE << >>)
        \o (IF spec.pvcs.some THEN spec.pvcs.val ELSE << >>)

\* C15: the volume claim templates of the StatefulSet a reconcile applied are the
\* backup PVC (PVC storage only), then the data PVC, then the user's pvcs in order.
C15_ClaimTemplatesInOrder ==
    (rec_result.some /\ "StatefulSet" \in Elems(rec_applied)) =>
        sts.val.volume_claim_templates = ExpectedClaims(rec_cluster.val)

\* A StatefulSet was applied for a cluster with a backup PVC and a data PVC.
C15_Witness ==
    /\ rec_result.some
    /\ "StatefulSet" \in Elems(rec_applied)
    /\ rec_cluster.val.spec.backup.some
    /\ rec_cluster.val.spec.backup.val.storage.kind = "Pvc"
    /\ rec_cluster.val.spec.data.some
    /\ Len(sts.val.volume_claim_templates) = 2

-----------------------------------------------------------------------------
(* The properties of the CRD lifecycle manager, checked under SpecCrd.      *)

\* The step in which prepare_crd lists the CRDs, decides and writes.
PrepareStep == pc_crd = "start" /\ pc_crd' # "start"

\* The list of the CRDs was refused: prepare_crd returned that error, writing nothing.
ListRefused == crd_result = Some(Err(KubeError("list"))) /\ crd_writes = << >>

\* The numbers of well-formed version names.
VersionNumbers(names) == {ParseApiVersion(names[i]).val : i \in 1..Len(names)}

WellFormed(names) == \A i \in 1..Len(names) : ParseApiVersion(names[i]).ok

EmbeddedNumber == ParseApiVersion(CurrentVersion).val

\* The CRD is present and the embedded version is above every version it holds.
EmbeddedAboveAll(found) ==
    /\ found.some
    /\ WellFormed(found.val)
    /\ \A n \in VersionNumbers(found.val) : EmbeddedNumber > n

\* The CRD is present and holds a version above the embedded one.
HigherPresent(found) ==
    /\ found.some
    /\ WellFormed(found.val)
    /\ \E n \in VersionNumbers(found.val) : n > EmbeddedNumber

\* The CRD is present and holds the embedded version and none above it.
EqualPresent(found) ==
    /\ found.some
    /\ WellFormed(found.val)
    /\ EmbeddedNumber \in VersionNumbers(found.val)
    /\ \A n \in VersionNumbers(found.val) : n <= EmbeddedNumber

\* The versions of the CRD the API server holds, if any.
ServerVersions == IF crd_server.some THEN Some(crd_server.val.versions) ELSE None

\* C16: with the CRD present and the embedded version above every version on the
\* API server, prepare_crd issues one merge-patch and does not return success
\* before it has waited for the Established condition.
C16_PatchThenAwaitEstablished ==
    [][(PrepareStep /\ EmbeddedAboveAll(ServerVersions)) =>
        /\ crd_writes' = <<"patch">> \/ ListRefused'
        /\ ~(pc_crd' = "done" /\ crd_result'.val.ok)]_vars

\* C17: with a version above the embedded one on the API server and create_crd not
\* set, prepare_crd fails, issues no create and no patch, and the CRD stays as it was.
C17_HigherVersionIsFatal ==
    [][(PrepareStep /\ HigherPresent(ServerVersions) /\ ~create_crd) =>
        /\ crd_writes' = << >>
        /\ crd_server' = crd_server
        /\ pc_crd' = "done"
        /\ ~crd_result'.val.ok]_vars

C17_Witness ==
    /\ pc_crd = "done"
    /\ ~create_crd
    /\ crd_listed.some /\ HigherPresent(crd_listed.val)
    /\ crd_result = Some(Err(Incompatible(CurrentVersion)))
    /\ crd_writes = << >>

\* C18: with a version above the embedded one on the API server and create_crd
\* set, prepare_crd (once the list is answered) issues one merge-patch; if the
\* patch is taken the CRD holds the embedded versions and prepare_crd goes on to
\* wait for Established, and the only failure of this step is the refused patch.
C18_ForcedPatchThenAwait ==
    [][(PrepareStep /\ HigherPresent(ServerVersions) /\ create_crd) =>
        \/ ListRefused'
        \/ /\ crd_writes' = <<"patch">>
           /\ \/ /\ pc_crd' = "await"
                 /\ crd_server' = Some(MergePatch(crd_server.val))
              \/ /\ crd_result' = Some(Err(KubeError("patch")))
                 /\ crd_server' = crd_server]_vars

C18_Witness ==
    /\ pc_crd = "await"
    /\ create_crd
    /\ crd_listed.some /\ HigherPresent(crd_listed.val)
    /\ crd_writes = <<"patch">>
    /\ crd_server.val.versions = <<CurrentVersion>>

\* C19 (as claimed): with the embedded version equal to a version on the API server
\* and none above it, prepare_crd issues no create and no patch.
C19_EqualVersionWritesNothing ==
    [][(PrepareStep /\ EqualPresent(ServerVersions)) => crd_writes' = << >>]_vars

\* C19 (amended): with the embedded version equal to a version on the API server
\* and none above it, prepare_crd without create_crd issues no create and no patch,
\* leaves the CRD as it was and goes on to wait for Established; with create_crd it
\* issues one merge-patch.
C19_EqualVersionWritesOnlyIfForced ==
    [][(PrepareStep /\ EqualPresent(ServerVersions)) =>
        \/ ListRefused'
        \/ IF create_crd
           THEN crd_writes' = <<"patch">>
           ELSE /\ crd_writes' = << >>
                /\ crd_server' = crd_server
                /\ pc_crd' = "await"]_vars

C19_Witness ==
    /\ pc_crd = "await"
    /\ ~create_crd
    /\ crd_listed.some /\ EqualPresent(crd_listed.val)
    /\ crd_writes = << >>

\* C20: with no CRD of the managed kind, prepare_crd (once the list is answered)
\* issues one create of the embedded definition and no patch, then waits for
\* Established; the wait writes nothing, returns success only when the CRD is
\* established, and returns an error when the timeout passes first.
C20_CreateThenAwaitEstablished ==
    [][/\ (PrepareStep /\ ~crd_server.some) =>
            \/ ListRefused'
            \/ /\ crd_writes' = <<"create">>
               /\ \/ pc_crd' = "await" /\ crd_server' = Some(Definition)
                  \/ crd_result' = Some(Err(KubeError("create"))) /\ crd_server' = crd_server
       /\ (pc_crd = "await" /\ pc_crd' = "done") =>
            /\ crd_writes' = crd_writes
            /\ crd_result'.val.ok => (crd_server.some /\ crd_server.val.established)
            /\ ~(crd_server.some /\ crd_server.val.established) => ~crd_result'.val.ok]_vars

\* The CRD was created and the timeout passed before it was established.
C20_Witness ==
    /\ pc_crd = "done"
    /\ crd_listed = Some(None)
    /\ crd_writes = <<"create">>
    /\ crd_result = Some(Err(Elapsed))

-----------------------------------------------------------------------------
(* The properties of the version comparator, checked under SpecCompare.     *)

\* The string has the form v<N>: one 'v', then one or more decimal digits.
ValidForm(s) == Len(s) >= 2 /\ s[1] = "v" /\ \A i \in 2..Len(s) : IsDigit(s[i])

\* The string has the form v<N> with N at most u32::MAX.
ValidVersion(s) == ValidForm(s) /\ FitsU32(Tail(s))

\* The comparison of the integers m and n.
IntegerOrdering(m, n) == IF m > n THEN "Greater" ELSE IF m < n THEN "Less" ELSE "Equal"

\* C21 (as claimed): for all strings a = v<m>, b = v<n> compare_versions returns an
\* ordering.
C21_ComparesEveryValidForm ==
    (cmp_result.some /\ ValidForm(cmp_args[1]) /\ ValidForm(cmp_args[2])) =>
        /\ cmp_result.val.ok
        /\ cmp_result.val.val \in {"Less", "Equal", "Greater"}

\* C21 (amended): for all strings a = v<m>, b = v<n> with m and n at most u32::MAX,
\* compare_versions returns the ordering of the integers m and n (v10 > v2, v1 = v1,
\* v2 < v10, v01 = v1).
C21_ComparesAsIntegers ==
    (cmp_result.some /\ ValidVersion(cmp_args[1]) /\ ValidVersion(cmp_args[2])) =>
        /\ cmp_result.val = Ok(IntegerOrdering(DecimalValue(Tail(cmp_args[1])),
                                               DecimalValue(Tail(cmp_args[2]))))
        /\ cmp_args = <<<<"v", "1", "0">>, <<"v", "2">>>> => cmp_result.val = Ok("Greater")
        /\ cmp_args = <<<<"v", "2">>, <<"v", "1", "0">>>> => cmp_result.val = Ok("Less")
        /\ cmp_args = <<<<"v", "1">>, <<"v", "1">>>> => cmp_result.val = Ok("Equal")

C21_Witness ==
    /\ cmp_args = <<<<"v", "1", "0">>, <<"v", "2">>>>
    /\ cmp_result = Some(Ok("Greater"))

\* C22: compare_versions fails whenever one of its inputs does not have the form
\* v<N>.
C22_RejectsEveryOtherForm ==
    (cmp_result.some /\ (~ValidForm(cmp_args[1]) \/ ~ValidForm(cmp_args[2]))) =>
        ~cmp_result.val.ok

-----------------------------------------------------------------------------
(* A frame property of the reconciler, checked under SpecReconciler.       *)

\* C30: no reconcile deletes a child: a Service, StatefulSet or CronJob on the API
\* server is still there after any reconcile, and a successful reconcile of the
\* cluster without a backup leaves the CronJob of an earlier reconcile as it was.
C30_NoChildDeleted ==
    [][/\ svc.some => svc'.some
       /\ sts.some => sts'.some
       /\ cron.some => cron'.some
       /\ (cron.some /\ rec_result'.val.ok /\ ~rec_cluster'.val.spec.backup.some) =>
              cron' = cron]_vars

\* The cluster that left a CronJob was reconciled again, with success, without backup.
C30_Witness ==
    /\ rec_result.some /\ rec_result.val.ok
    /\ ~rec_cluster.val.spec.backup.some
    /\ cron.some /\ sts.some /\ svc.some
    /\ cron.val.metadata.name = rec_cluster.val.metadata.name.val
    /\ cron.val.metadata.namespace = sts.val.metadata.namespace

-----------------------------------------------------------------------------
(* The properties of the probe, checked under SpecProbe.                   *)

\* C26: the reachable ids of a probe's report hold the own id exactly once, whether
\* or not the request to the own address succeeded, and apart from it exactly the
\* members whose request succeeded, each once.
C26_SelfOnceAndSucceededMembers ==
    probe_status.some =>
        LET status == probe_status.val.reachable_ids
        IN  /\ probe_status.val.id = probe_self
            /\ Cardinality({i \in 1..Len(status) : status[i] = probe_self}) = 1
            /\ Elems(status) \ {probe_self} = Elems(probe_ok) \ {probe_self}
            /\ Len(status) = Cardinality(Elems(status))
            /\ Elems(probe_ok) \subseteq probe_members

C26_Witness ==
    /\ probe_status.some
    /\ probe_self \in probe_members
    /\ ~Contains(probe_ok, probe_self)
    /\ Len(probe_ok) = 2
    /\ Len(probe_status.val.reachable_ids) = 3

-----------------------------------------------------------------------------
(* The properties of the run loop, checked under SpecRun.                  *)

-----------------------------------------------------------------------------
(* The property of the probe task, checked under SpecProbe.                *)

\* C31: the task delivers at most one heartbeat per tick, and the first post that is
\* not answered ends it: the task returns the error and, whether or not the deploy
\* operator comes back, delivers no heartbeat and probes no more.
C31_FirstFailedPostEndsTask ==
    [][/\ hb_sent' # hb_sent =>
            /\ hb_sent' = hb_sent + 1
            /\ task_pc = "send" /\ task_pc' = "tick" /\ operator_up
       /\ (task_pc = "send" /\ task_pc' # "send" /\ ~operator_up) =>
            /\ task_pc' = "returned"
            /\ task_result' = Some(Err(ReqwestError))
            /\ hb_sent' = hb_sent
       /\ task_pc = "returned" =>
            /\ task_pc' = "returned"
            /\ hb_sent' = hb_sent
            /\ probe_status' = probe_status
            /\ task_result' = task_result]_vars

C31_Witness ==
    /\ task_pc = "returned"
    /\ task_result = Some(Err(ReqwestError))
    /\ hb_sent = 1
    /\ operator_up

-----------------------------------------------------------------------------
(* The property of the xline handles, checked under SpecXline.             *)

\* C32: a handle tracks at most one process, and one it launched: a start that
\* succeeds has ended the process tracked before and tracks the one it launched, a
\* start that fails tracks none; a kill leaves no process tracked, ends the one that
\* was tracked when it succeeds, and succeeds without effect when none was tracked.
C32_HandleTracksAtMostOneProcess ==
    [][xh_kind # "none" =>
        /\ xh_call' \in {"start", "kill"}
        /\ Cardinality({p \in xh_live' : xh_proc' = Some(p)}) = IF xh_proc'.some THEN 1 ELSE 0
        /\ xh_call' = "kill" =>
              /\ xh_proc' = None
              /\ xh_proc = None => xh_result' = Some(Ok("unit")) /\ xh_live' = xh_live
              /\ (xh_proc.some /\ xh_result'.val.ok) => xh_live' = xh_live \ {xh_proc.val}
        /\ xh_call' = "start" =>
              /\ xh_result'.val.ok =>
                    /\ xh_proc'.some
                    /\ xh_proc'.val \notin xh_live
                    /\ xh_live' = (xh_live \ {p \in xh_live : xh_proc = Some(p)})
                                      \cup {xh_proc'.val}
              /\ ~xh_result'.val.ok => xh_proc' = None /\ xh_live' \subseteq xh_live]_vars

C32_Witness ==
    /\ xh_call = "start"
    /\ xh_result = Some(Ok("unit"))
    /\ xh_launched = 2
    /\ xh_proc.some
    /\ xh_live = {xh_proc.val}

====
